---- MODULE Spec2Model ----
(***************************************************************************)
(* Pause/resume orchestration of the job-application automation:           *)
(* the BrowserManager session registry (internal/services), the apply,     *)
(* resume, cancel and status handlers (internal/handlers) and the          *)
(* question helpers (internal/scrapers), the request rate limiter          *)
(* (internal/middleware) and the cached job search (ScrapeJobs).           *)
(*                                                                         *)
(* Time is counted in steps of the clock, minutes for the registry and the *)
(* limiter.  A browser session is the bundle (ctx, cancel, allocCtx,       *)
(* allocCancel) that ApplyToJob creates; the model names it by its index   *)
(* in `sessions`.                                                          *)
(***************************************************************************)
EXTENDS Integers, Sequences, FiniteSets, TLC

VARIABLES
    apps,       \* the applications table: row id -> row
    contexts,   \* BrowserManager.contexts: application id -> BrowserContext
    sessions,   \* every browser session created so far: its context state
    now,        \* time.Now(), in minutes
    lastReap,   \* when the cleanupLoop ticker last fired
    last,       \* what the most recent operation did and returned
    flights,    \* requests being served concurrently: where each one stands
    visitors,   \* RateLimiter.visitors: ip -> visitor
    jobs,       \* the jobs table: url -> row
    history,    \* the requests the limiter and the job search have answered
    pending     \* requests inside the limiter concurrently: where each one stands

vars == <<apps, contexts, sessions, now, lastReap, last, flights, visitors, jobs, history,
          pending>>

---------------------------------------------------------------------------
(* Bounds of the model *)

MaxApps == 1        \* ApplyToJob requests served
MaxSessions == 3    \* sessions handed to Store by a direct caller
NumIds == 2         \* application ids a request or a direct caller may name
MaxTime == 5        \* minutes the clock runs
MaxFlights == 2     \* resume and cancel requests served concurrently
MaxRequests == 4    \* requests the rate limiter answers
MaxScrapes == 3     \* job searches answered with a result

(* The idle timeout the manager is constructed with, NewBrowserManager(timeout), *)
(* in minutes.  cmd/api/main.go passes 15 minutes; the manager only ever         *)
(* compares now - CreatedAt with it, and the model runs it with a shorter one.   *)
Timeout == 2

(* The requests per window the limiter is constructed with,                *)
(* NewRateLimiter(requestsPerMinute).  cmd/api/main.go passes 60; the       *)
(* limiter only ever resets the token count to it and counts down from it,  *)
(* and the model runs it with a smaller one.                                *)
Rate == 2

(* After how long without an admitted request cleanupVisitors deletes a     *)
(* visitor (10 minutes in the code), and the ages the job search compares   *)
(* cached_at with (12 and 24 hours in the code), in clock steps.  The code  *)
(* only compares differences of timestamps with them; the model keeps       *)
(* their order, Window < StaleAfter and CacheTTL < PurgeAge.                *)
StaleAfter == 3
CacheTTL == 2
PurgeAge == 4

(* Program constants *)

ReapInterval == 1   \* time.NewTicker(1 * time.Minute)
Window == 1         \* rl.window = time.Minute
MaxViolations == 10 \* if v.violations > 10

AppIds == 1..NumIds

---------------------------------------------------------------------------
(* Maps *)

Put(f, k, v) == [x \in (DOMAIN f) \cup {k} |-> IF x = k THEN v ELSE f[x]]
Drop(f, S) == [x \in (DOMAIN f) \ S |-> f[x]]
EmptyMap == [x \in {} |-> 0]

---------------------------------------------------------------------------
(* Sessions.  ctxDone: the context handed to chromedp.Run is cancelled, so *)
(* every later automation step on it fails.  cancelCalls: how many times   *)
(* the pair cancel(), allocCancel() was invoked on it.  page: the page the *)
(* browser of the session shows.                                           *)

NoPage == [visible |-> {}, hasNext |-> FALSE, questions |-> <<>>, jsOk |-> {}]

NewSession(page) ==
    [ctxDone |-> FALSE, cancelCalls |-> 0, page |-> page, submits |-> 0, returned |-> FALSE]

(* The handler that opened the session has returned: its deferred calls    *)
(* have run.                                                               *)
Returned(ss, sid) == [ss EXCEPT ![sid].returned = TRUE]

(* The browser of the session has taken the clicks of one automation run:  *)
(* submits counts the submit controls clicked successfully in it.          *)
Clicks(ss, sid, clicked) ==
    [ss EXCEPT ![sid].submits =
        @ + Cardinality({i \in 1..Len(clicked) : clicked[i].stage = "submit"})]

Cancel(ss, S) ==
    [s \in DOMAIN ss |->
        IF s \in S
        THEN [ss[s] EXCEPT !.ctxDone = TRUE, !.cancelCalls = @ + 1]
        ELSE ss[s]]

Live(ss, s) == ~ss[s].ctxDone /\ ss[s].cancelCalls = 0

---------------------------------------------------------------------------
(* BrowserManager *)

BrowserContext(sid, t) == [sid |-> sid, CreatedAt |-> t]

NoContext == [sid |-> 0, CreatedAt |-> 0]

StoreNoCancel(cs, ss, id, sid, t) ==
    [contexts |-> Put(cs, id, BrowserContext(sid, t)), sessions |-> ss]

StoreFirstWins(cs, ss, id, sid, t) ==
    IF id \in DOMAIN cs
    THEN [contexts |-> cs, sessions |-> Cancel(ss, {sid})]
    ELSE [contexts |-> Put(cs, id, BrowserContext(sid, t)), sessions |-> ss]

Store(cs, ss, id, sid, t) ==
    [contexts |-> Put(cs, id, BrowserContext(sid, t)),
     sessions |-> IF id \in DOMAIN cs THEN Cancel(ss, {cs[id].sid}) ELSE ss]

GetNever(cs, id) == [ctx |-> NoContext, exists |-> FALSE]

Get(cs, id) ==
    IF id \in DOMAIN cs
    THEN [ctx |-> cs[id], exists |-> TRUE]
    ELSE [ctx |-> NoContext, exists |-> FALSE]

RemoveKeepEntry(cs, ss, id) ==
    IF id \in DOMAIN cs
    THEN [contexts |-> cs, sessions |-> Cancel(ss, {cs[id].sid})]
    ELSE [contexts |-> cs, sessions |-> ss]

RemoveNoCancel(cs, ss, id) ==
    [contexts |-> Drop(cs, {id}), sessions |-> ss]

Remove(cs, ss, id) ==
    IF id \in DOMAIN cs
    THEN [contexts |-> Drop(cs, {id}), sessions |-> Cancel(ss, {cs[id].sid})]
    ELSE [contexts |-> cs, sessions |-> ss]

ExpiredAtTimeout(cs, t) == {id \in DOMAIN cs : t - cs[id].CreatedAt >= Timeout}

Expired(cs, t) == {id \in DOMAIN cs : t - cs[id].CreatedAt > Timeout}

CleanupExpiredKeeps(cs, ss, t) ==
    LET expired == Expired(cs, t)
    IN  [contexts |-> cs,
         sessions |-> Cancel(ss, {cs[id].sid : id \in expired}),
         n |-> Cardinality(expired),
         expired |-> expired]

CleanupExpired(cs, ss, t) ==
    LET expired == Expired(cs, t)
    IN  [contexts |-> Drop(cs, expired),
         sessions |-> Cancel(ss, {cs[id].sid : id \in expired}),
         n |-> Cardinality(expired),
         expired |-> expired]

Count(cs) == Cardinality(DOMAIN cs)

ShutdownNoCancel(cs, ss) == [contexts |-> EmptyMap, sessions |-> ss]

Shutdown(cs, ss) ==
    [contexts |-> EmptyMap,
     sessions |-> Cancel(ss, {cs[id].sid : id \in DOMAIN cs})]

---------------------------------------------------------------------------
(* What an operation did and returned *)

NoResult ==
    [op |-> "none", id |-> 0, code |-> 0, was |-> "", status |-> "",
     errors |-> <<>>, questions |-> <<>>, fieldsFilled |-> <<>>,
     tried |-> {}, clicked |-> <<>>, answers |-> EmptyMap, page |-> NoPage,
     stored |-> <<>>,
     sid |-> 0, exists |-> FALSE, had |-> FALSE, evicted |-> {}, ages |-> EmptyMap,
     from_cache |-> FALSE, jobs_scraped |-> 0]

---------------------------------------------------------------------------
(* Candidate locators, in the order the code tries them *)

applySelectors ==
    << "button:contains(\"Apply now\")", "button:contains(\"Apply\")",
       "a:contains(\"Apply now\")", "a:contains(\"Apply\")",
       "button[id*=\"apply\"]", "a[id*=\"apply\"]",
       ".jobsearch-IndeedApplyButton", ".ia-IndeedApplyButton" >>

submitSelectors ==
    << "button[type=\"submit\"]", "button:contains(\"Submit\")",
       "button:contains(\"Submit application\")", "button:contains(\"Continue\")",
       "input[type=\"submit\"]", "button[id*=\"submit\"]" >>

resumeSubmitSelectors ==
    << "button[type=\"submit\"]", "button:contains(\"Submit\")",
       "button:contains(\"Submit application\")", "button:contains(\"Apply\")",
       "input[type=\"submit\"]", "button[id*=\"submit\"]",
       "button[class*=\"submit\"]" >>

nextSelectors ==
    << "button:contains(\"Next\")", "button:contains(\"Continue\")",
       "input[value*=\"Next\"]", "input[value*=\"Continue\"]",
       "button[id*=\"next\"]", "button[id*=\"continue\"]" >>

fileSelectors ==
    << "input[type=\"file\"]", "input[name*=\"resume\"]", "input[name*=\"cv\"]",
       "input[id*=\"resume\"]", "input[id*=\"cv\"]" >>

profileFields ==
    << [name |-> "firstName",
        selectors |-> << "input[name*=\"firstName\"]", "input[id*=\"firstName\"]",
                         "input[name*=\"first-name\"]", "input[id*=\"first-name\"]" >>],
       [name |-> "lastName",
        selectors |-> << "input[name*=\"lastName\"]", "input[id*=\"lastName\"]",
                         "input[name*=\"last-name\"]", "input[id*=\"last-name\"]" >>],
       [name |-> "email",
        selectors |-> << "input[type=\"email\"]", "input[name*=\"email\"]",
                         "input[id*=\"email\"]" >>],
       [name |-> "phone",
        selectors |-> << "input[type=\"tel\"]", "input[name*=\"phone\"]",
                         "input[id*=\"phone\"]" >>],
       [name |-> "city",
        selectors |-> << "input[name*=\"city\"]", "input[id*=\"city\"]",
                         "input[name*=\"location\"]" >>] >>

fillFieldLast(live, visible, selectors) ==
    LET hits == {i \in 1..Len(selectors) : live /\ selectors[i] \in visible}
    IN  IF hits = {} THEN 0 ELSE CHOOSE i \in hits : \A j \in hits : i >= j

(* The first candidate, in list order, that resolves to a visible element  *)
(* of the page under a context that is still running; 0 when none does.    *)
fillField(live, visible, selectors) ==
    LET hits == {i \in 1..Len(selectors) : live /\ selectors[i] \in visible}
    IN  IF hits = {} THEN 0 ELSE CHOOSE i \in hits : \A j \in hits : i <= j

---------------------------------------------------------------------------
(* Inputs: profiles, questions, pages, answers *)

U1 == [firstName |-> "Ada", lastName |-> "Lovelace", email |-> "ada@example.org",
       phone |-> "555-0100", city |-> "London", resumePath |-> "/uploads/ada.pdf"]

Profiles == {U1}

Q1 == [ID |-> "textarea_0", Type |-> "textarea", Label |-> "Why do you want this job?",
       Required |-> TRUE, Selector |-> "#why", Options |-> <<>>]

Q2 == [ID |-> "select_0", Type |-> "select", Label |-> "Years of experience",
       Required |-> FALSE, Selector |-> "#years", Options |-> <<"0-2", "3+">>]

AnswerIds == {"textarea_0", "select_0", "stray"}

AnswerTexts == {"Because I love the mission."}

AnswerMaps == UNION {[S -> AnswerTexts] : S \in SUBSET AnswerIds}

(* The answer maps that name detected questions only *)
KnownAnswerMaps == {m \in AnswerMaps : "stray" \notin DOMAIN m}

(* A page as the automation sees it: the locators that resolve to a visible *)
(* element, whether the continue-button script finds one, what the question *)
(* detector script returns, and the questions whose select/radio script     *)
(* finds a matching option.                                                 *)
HasSubmitInput(p) == "input[type=\"submit\"]" \in p.visible

Page(visible, hasNext, questions, jsOk) ==
    [visible |-> visible, hasNext |-> hasNext, questions |-> questions, jsOk |-> jsOk]

JobPage == {"a[id*=\"apply\"]", "input[name*=\"firstName\"]", "input[type=\"email\"]",
            "input[id*=\"phone\"]"}

Pages ==
    { Page({}, FALSE, <<>>, {}),
      Page(JobPage, FALSE, <<>>, {}),
      Page(JobPage \cup {"button[class*=\"submit\"]"}, FALSE, <<Q2>>, {}),
      Page(JobPage \cup {"#years", "button[id*=\"continue\"]"}, TRUE, <<Q2>>, {"select_0"}),
      Page(JobPage \cup {"input[type=\"submit\"]", "button[id*=\"submit\"]"},
           FALSE, <<>>, {}),
      Page(JobPage \cup {"#why", "input[type=\"submit\"]", "button[id*=\"submit\"]"},
           FALSE, <<Q1>>, {}),
      Page({"button[id*=\"apply\"]", ".ia-IndeedApplyButton", "input[id*=\"lastName\"]",
            "input[type=\"file\"]", "#why", "#years", "button[id*=\"next\"]"},
           TRUE, <<Q1, Q2>>, {"select_0"}) }

(* The pages a click on a continue button leads to: a last page with the   *)
(* submit controls, without and with a further question.                   *)
FollowPages == {p \in Pages : HasSubmitInput(p) /\ Len(p.questions) <= 1}

---------------------------------------------------------------------------
(* scrapers: question helpers *)

(* json.Marshal of []CustomQuestion: "options" is omitted when empty *)
QuestionToJSON(questions) ==
    [i \in 1..Len(questions) |->
        LET q == questions[i]
            base == [id |-> q.ID, type |-> q.Type, label |-> q.Label,
                     required |-> q.Required, selector |-> q.Selector]
        IN  IF q.Options = <<>> THEN base
            ELSE [k \in DOMAIN base \cup {"options"} |->
                     IF k = "options" THEN q.Options ELSE base[k]]]

JSONToQuestions(data) ==
    [i \in 1..Len(data) |->
        LET o == data[i]
        IN  [ID |-> o.id, Type |-> o.type, Label |-> o.label,
             Required |-> o.required, Selector |-> o.selector,
             Options |-> IF "options" \in DOMAIN o THEN o.options ELSE <<>>]]

DetectCustomQuestions(live, page) == IF live THEN page.questions ELSE <<>>

HasNextButton(live, page) == live /\ page.hasNext

ClickNextButton(live, page) == fillField(live, page.visible, nextSelectors)

(* The error FillAnswer returns; "" stands for nil *)
FillAnswer(live, page, question) ==
    CASE question.Type \in {"textarea", "text"} ->
            IF fillField(live, page.visible, <<question.Selector>>) # 0 THEN ""
            ELSE IF live THEN "context deadline exceeded" ELSE "context canceled"
      [] question.Type = "select" ->
            IF live /\ question.ID \in page.jsOk THEN ""
            ELSE "failed to set select value"
      [] question.Type = "radio" ->
            IF live /\ question.ID \in page.jsOk THEN ""
            ELSE "failed to select radio option"
      [] OTHER -> "unsupported question type: " \o question.Type

---------------------------------------------------------------------------
(* scrapers: the script DetectCustomQuestions evaluates in the page.  Texts *)
(* are sequences of characters, so that trimming, lower-casing and pattern  *)
(* search work on them as the script's string operations do.               *)

Upper == <<"A", "B", "C", "D", "E", "F", "G", "H", "I", "J", "K", "L", "M", "N", "O", "P", "Q", "R", "S", "T", "U", "V", "W", "X", "Y", "Z">>

Lower == <<"a", "b", "c", "d", "e", "f", "g", "h", "i", "j", "k", "l", "m", "n", "o", "p", "q", "r", "s", "t", "u", "v", "w", "x", "y", "z">>

toLowerCase(str) ==
    [i \in 1..Len(str) |->
        IF \E k \in 1..Len(Upper) : Upper[k] = str[i]
        THEN Lower[CHOOSE k \in 1..Len(Upper) : Upper[k] = str[i]]
        ELSE str[i]]

RECURSIVE trimStart(_)
trimStart(str) ==
    IF str # <<>> /\ Head(str) = " " THEN trimStart(Tail(str)) ELSE str

RECURSIVE trimEnd(_)
trimEnd(str) ==
    IF str # <<>> /\ str[Len(str)] = " " THEN trimEnd(SubSeq(str, 1, Len(str) - 1)) ELSE str

trim(str) == trimEnd(trimStart(str))

(* the positions at which `word` occurs in `str` *)
Occurs(str, word) ==
    {i \in 1..(Len(str) - Len(word) + 1) : SubSeq(str, i, i + Len(word) - 1) = word}

(* /a.*b/ *)
TestThen(str, a, b) ==
    \E i \in Occurs(str, a) : \E j \in Occurs(str, b) : j >= i + Len(a)

(* element.name.replace(/[-_]/g, ' ') *)
replaceDashes(str) ==
    [i \in 1..Len(str) |-> IF str[i] \in {"-", "_"} THEN " " ELSE str[i]]

(* standardPatterns, after /first.*name/, /last.*name/ and /^name$/ *)
standardPatterns ==
    << <<"e", "m", "a", "i", "l">>,
       <<"p", "h", "o", "n", "e">>,
       <<"t", "e", "l", "e", "p", "h", "o", "n", "e">>,
       <<"m", "o", "b", "i", "l", "e">>,
       <<"a", "d", "d", "r", "e", "s", "s">>,
       <<"s", "t", "r", "e", "e", "t">>,
       <<"c", "i", "t", "y">>,
       <<"s", "t", "a", "t", "e">>,
       <<"z", "i", "p">>,
       <<"p", "o", "s", "t", "a", "l">>,
       <<"r", "e", "s", "u", "m", "e">>,
       <<"c", "v">>,
       <<"l", "i", "n", "k", "e", "d", "i", "n">>,
       <<"p", "o", "r", "t", "f", "o", "l", "i", "o">>,
       <<"w", "e", "b", "s", "i", "t", "e">> >>

isStandardField(label) ==
    IF label = <<>> THEN FALSE
    ELSE LET lowerLabel == trim(toLowerCase(label))
         IN  \/ TestThen(lowerLabel, <<"f", "i", "r", "s", "t">>, <<"n", "a", "m", "e">>)
             \/ TestThen(lowerLabel, <<"l", "a", "s", "t">>, <<"n", "a", "m", "e">>)
             \/ lowerLabel = <<"n", "a", "m", "e">>
             \/ \E k \in 1..Len(standardPatterns) : Occurs(lowerLabel, standardPatterns[k]) # {}

(* An element of the page: `label` is the text of the label element that   *)
(* wraps it or points at it (hasLabel says whether there is one), `box` the *)
(* fieldset or parent of a radio button.                                    *)
NoBox == [hasLabel |-> FALSE, label |-> <<>>, aria |-> <<>>, placeholder |-> <<>>,
          name |-> <<>>]

Element(tag, hasLabel, label, aria, placeholder, name, id, visible, required, options, box) ==
    [tag |-> tag, hasLabel |-> hasLabel, label |-> label, aria |-> aria,
     placeholder |-> placeholder, name |-> name, id |-> id, visible |-> visible,
     required |-> required, options |-> options, box |-> box]

getLabel(element) ==
    IF element.hasLabel THEN trim(element.label)
    ELSE IF element.aria # <<>> THEN trim(element.aria)
    ELSE IF element.placeholder # <<>> THEN trim(element.placeholder)
    ELSE IF element.name # <<>> THEN trim(replaceDashes(element.name))
    ELSE <<>>

isRequired(element) == element.required

Digit(n) == <<"0", "1", "2", "3", "4", "5", "6", "7", "8", "9">>[n + 1]

getSelector(element, index) ==
    IF element.id # <<>> THEN <<"#">> \o element.id
    ELSE IF element.name # <<>>
    THEN element.tag \o <<"[", "n", "a", "m", "e", "=", "\"">> \o element.name \o <<"\"", "]">>
    ELSE element.tag \o <<":", "n", "t", "h", "-", "o", "f", "-", "t", "y", "p", "e", "(">> \o <<Digit(index + 1)>> \o <<")">>

TagTextarea == <<"t", "e", "x", "t", "a", "r", "e", "a">>

TagSelect == <<"s", "e", "l", "e", "c", "t">>

TagInput == <<"i", "n", "p", "u", "t">>

(* document.querySelectorAll('textarea').forEach((textarea, index) => ...) *)
textareaQuestions(dom) ==
    LET textareas == SelectSeq(dom, LAMBDA e : e.tag = TagTextarea)
        Kept(index) == /\ ~isStandardField(getLabel(textareas[index + 1]))
                       /\ textareas[index + 1].visible
        kept == SelectSeq([i \in 1..Len(textareas) |-> i - 1], Kept)
    IN  [k \in 1..Len(kept) |->
            LET index == kept[k]
                textarea == textareas[index + 1]
                label == getLabel(textarea)
            IN  [ID |-> <<"t", "e", "x", "t", "a", "r", "e", "a", "_">> \o <<Digit(index)>>,
                 Type |-> "textarea",
                 Label |-> IF label # <<>> THEN label
                           ELSE <<"T", "e", "x", "t", " ", "R", "e", "s", "p", "o", "n", "s", "e", " ">> \o <<Digit(index + 1)>>,
                 Required |-> isRequired(textarea),
                 Selector |-> getSelector(textarea, index),
                 Options |-> <<>>]]

(* the option texts kept: trimmed, not empty, not a placeholder entry *)
selectOptions(select) ==
    LET texts == [i \in 1..Len(select.options) |-> trim(select.options[i])]
    IN  SelectSeq(texts, LAMBDA text : text # <<>> /\ text # <<"S", "e", "l", "e", "c", "t", ".", ".", ".">> /\ text # <<"C", "h", "o", "o", "s", "e", ".", ".", ".">>)

(* document.querySelectorAll('select').forEach((select, index) => ...) *)
selectQuestions(dom) ==
    LET selects == SelectSeq(dom, LAMBDA e : e.tag = TagSelect)
        Kept(index) == /\ ~isStandardField(getLabel(selects[index + 1]))
                       /\ selects[index + 1].visible
        kept == SelectSeq([i \in 1..Len(selects) |-> i - 1], Kept)
    IN  [k \in 1..Len(kept) |->
            LET index == kept[k]
                select == selects[index + 1]
                label == getLabel(select)
            IN  [ID |-> <<"s", "e", "l", "e", "c", "t", "_">> \o <<Digit(index)>>,
                 Type |-> "select",
                 Label |-> IF label # <<>> THEN label
                           ELSE <<"S", "e", "l", "e", "c", "t", "i", "o", "n", " ">> \o <<Digit(index + 1)>>,
                 Required |-> isRequired(select),
                 Selector |-> getSelector(select, index),
                 Options |-> selectOptions(select)]]

(* document.querySelectorAll('input[type="radio"]').forEach(radio => ...):  *)
(* radioGroups, in insertion order, each with the name it is keyed by       *)
RECURSIVE radioGroups(_, _)
radioGroups(radios, groups) ==
    IF radios = <<>> THEN groups
    ELSE LET radio == Head(radios)
             known == \E k \in 1..Len(groups) : groups[k].name = radio.name
             label == getLabel(radio.box)
             group == [name |-> radio.name,
                       q |-> [ID |-> <<"r", "a", "d", "i", "o", "_">> \o radio.name,
                              Type |-> "radio",
                              Label |-> IF label # <<>> THEN label ELSE radio.name,
                              Required |-> isRequired(radio),
                              Selector |-> <<"i", "n", "p", "u", "t", "[", "n", "a", "m", "e", "=", "\"">> \o radio.name \o <<"\"", "]">>,
                              Options |-> <<>>]]
             opened == IF ~known /\ ~isStandardField(label)
                       THEN Append(groups, group) ELSE groups
             optionLabel == getLabel(radio)
             pushed == [k \in 1..Len(opened) |->
                          IF opened[k].name = radio.name /\ optionLabel # <<>>
                          THEN [opened[k] EXCEPT !.q.Options = Append(@, optionLabel)]
                          ELSE opened[k]]
         IN  IF radio.name = <<>> \/ ~radio.visible
             THEN radioGroups(Tail(radios), groups)
             ELSE radioGroups(Tail(radios), pushed)

radioQuestions(dom) ==
    LET groups == radioGroups(SelectSeq(dom, LAMBDA e : e.tag = TagInput), <<>>)
    IN  [k \in 1..Len(groups) |-> groups[k].q]

(* what the script returns for a page *)
jsCode(dom) == textareaQuestions(dom) \o selectQuestions(dom) \o radioQuestions(dom)

(* Pages for the script: the elements, in document order *)

MaxElements == 2    \* form elements on a page

WhyUs == <<"W", "h", "y", " ", "u", "s", "?">>

EmailAddress == <<"E", "m", "a", "i", "l", " ", "A", "d", "d", "r", "e", "s", "s">>

Blank == <<" ", " ">>

FirstNameAttr == <<"f", "i", "r", "s", "t", "_", "n", "a", "m", "e">>

CoverNoteAttr == <<"c", "o", "v", "e", "r", "-", "n", "o", "t", "e">>

PhoneTypeAttr == <<"p", "h", "o", "n", "e", "_", "t", "y", "p", "e">>

Elements ==
    { Element(TagTextarea, TRUE, WhyUs, <<>>, <<>>, <<>>, <<"w", "h", "y">>, TRUE, TRUE, <<>>, NoBox),
      Element(TagTextarea, TRUE, EmailAddress, <<>>, <<>>, <<>>, <<>>, TRUE, FALSE, <<>>, NoBox),
      Element(TagTextarea, FALSE, <<>>, <<>>, <<>>, FirstNameAttr, <<>>, TRUE, FALSE, <<>>, NoBox),
      Element(TagTextarea, FALSE, <<>>, <<>>, <<>>, <<>>, <<>>, TRUE, FALSE, <<>>, NoBox),
      Element(TagTextarea, TRUE, WhyUs, <<>>, <<>>, <<>>, <<>>, FALSE, TRUE, <<>>, NoBox),
      Element(TagTextarea, TRUE, Blank, EmailAddress, <<>>, <<>>, <<>>, TRUE, FALSE, <<>>, NoBox),
      Element(TagSelect, FALSE, <<>>, <<>>, <<>>, CoverNoteAttr, <<>>, TRUE, TRUE,
              <<<<"S", "e", "l", "e", "c", "t", ".", ".", ".">>, <<"Y", "e", "s">>>>, NoBox),
      Element(TagSelect, FALSE, <<>>, <<>>, <<>>, <<>>, <<>>, TRUE, FALSE, <<>>, NoBox),
      Element(TagInput, FALSE, <<>>, <<>>, <<>>, PhoneTypeAttr, <<>>, TRUE, FALSE, <<>>, NoBox),
      Element(TagInput, TRUE, <<"Y", "e", "s">>, <<>>, <<>>, CoverNoteAttr, <<>>, TRUE, TRUE, <<>>,
              [NoBox EXCEPT !.hasLabel = TRUE, !.label = WhyUs]),
      Element(TagInput, FALSE, <<>>, <<>>, <<>>, PhoneTypeAttr, <<>>, TRUE, FALSE, <<>>,
              [NoBox EXCEPT !.aria = EmailAddress]),
      Element(TagInput, FALSE, <<>>, <<>>, <<>>, <<>>, <<>>, TRUE, FALSE, <<>>, NoBox) }

Doms == UNION {[1..n -> Elements] : n \in 0..MaxElements}

(* DetectCustomQuestions on a running context showing the page `dom` *)
DetectPage(dom) ==
    /\ last' = [NoResult EXCEPT !.op = "detect", !.page = [dom |-> dom],
                                !.questions = jsCode(dom)]
    /\ UNCHANGED <<apps, contexts, sessions, now, lastReap, flights, visitors, jobs, history, pending>>

---------------------------------------------------------------------------
(* Text helpers *)

RECURSIVE Join(_, _)
Join(strs, sep) ==
    IF strs = <<>> THEN ""
    ELSE IF Len(strs) = 1 THEN strs[1]
    ELSE strs[1] \o sep \o Join(Tail(strs), sep)

(* fmt.Sprintf("%v", errors) of a []string *)
SprintfV(strs) == "[" \o Join(strs, " ") \o "]"

NamesBug(fields) == [i \in 1..Len(profileFields) |-> profileFields[i].name]

Names(fields) == [i \in 1..Len(fields) |-> fields[i].name]

---------------------------------------------------------------------------
(* handlers: ApplyToJob *)

(* The deferred calls of ApplyToJob, run when it returns, last registered   *)
(* first: timeoutCancel() cancels the context derived by                    *)
(* context.WithTimeout, which is the one the automation ran on and the one  *)
(* handed to Store; then cancel(), allocCancel() unless cleanupDone.        *)
timeoutCancel(ss, sid) == [ss EXCEPT ![sid].ctxDone = TRUE]

DeferredKeep(ss, sid, cleanupDone) == timeoutCancel(ss, sid)

Deferred(ss, sid, cleanupDone) ==
    LET a == timeoutCancel(ss, sid)
    IN  IF cleanupDone THEN a ELSE Cancel(a, {sid})

(* The form steps after the Apply click: fills, upload, detection, submit *)
FormSteps(profile, page) ==
    LET Found(f) == profile[f.name] # "" /\ fillField(TRUE, page.visible, f.selectors) # 0
        Wanted(f) == profile[f.name] # ""
        fills == SelectSeq(profileFields, Found)
        up == fillField(TRUE, page.visible, fileSelectors)
        hasResume == profile.resumePath # ""
        fieldsFilled == Names(fills) \o (IF hasResume /\ up # 0 THEN <<"resume">> ELSE <<>>)
        errors0 == IF hasResume /\ up = 0
                   THEN <<"Resume upload failed: file input not found">> ELSE <<>>
        clicked0 == [i \in 1..Len(fills) |->
                        [stage |-> "fill", selector |->
                            fills[i].selectors[fillField(TRUE, page.visible, fills[i].selectors)]]]
                    \o (IF hasResume /\ up # 0
                        THEN <<[stage |-> "upload", selector |-> fileSelectors[up]]>> ELSE <<>>)
        tried0 == (IF SelectSeq(profileFields, Wanted) # <<>> THEN {"fill"} ELSE {})
                  \cup (IF hasResume THEN {"upload"} ELSE {}) \cup {"detect"}
        customQuestions == DetectCustomQuestions(TRUE, page)
        sub == fillField(TRUE, page.visible, submitSelectors)
    IN  IF Len(customQuestions) > 0
        THEN [status |-> "paused", errors |-> errors0, fieldsFilled |-> fieldsFilled,
              questions |-> customQuestions, tried |-> tried0, clicked |-> clicked0]
        ELSE [status |-> IF sub # 0 THEN "submitted" ELSE "failed",
              errors |-> IF sub # 0 THEN errors0
                         ELSE Append(errors0, "Could not find Submit button"),
              fieldsFilled |-> fieldsFilled,
              questions |-> <<>>,
              tried |-> tried0 \cup {"submit"},
              clicked |-> IF sub # 0
                          THEN Append(clicked0, [stage |-> "submit",
                                                 selector |-> submitSelectors[sub]])
                          ELSE clicked0]

ApplyRunFillsAnyway(profile, nav, page) ==
    LET r == FormSteps(profile, page)
    IN  [r EXCEPT !.tried = @ \cup {"navigate", "apply"}]

(* The automation of one ApplyToJob request, on a fresh running context *)
ApplyRun(profile, nav, page) ==
    IF ~nav
    THEN [status |-> "failed", errors |-> <<"Navigation failed: page unreachable">>,
          fieldsFilled |-> <<>>, questions |-> <<>>, tried |-> {"navigate"},
          clicked |-> <<>>]
    ELSE LET a == fillField(TRUE, page.visible, applySelectors)
         IN  IF a = 0
             THEN [status |-> "failed", errors |-> <<"Could not find Apply button">>,
                   fieldsFilled |-> <<>>, questions |-> <<>>,
                   tried |-> {"navigate", "apply"}, clicked |-> <<>>]
             ELSE LET r == FormSteps(profile, page)
                  IN  [r EXCEPT !.tried = @ \cup {"navigate", "apply"},
                                !.clicked = <<[stage |-> "apply",
                                               selector |-> applySelectors[a]]>> \o @]

CurrentURL == "https://jobs.example/apply/form"

PausedRowBug(r, t) ==
    [status |-> r.status, filled_fields |-> [fields |-> r.fieldsFilled],
     custom_questions |-> <<>>, user_answers |-> <<>>,
     paused_at |-> <<t>>, current_url |-> <<CurrentURL>>, applied_at |-> <<>>,
     error_log |-> Join(r.errors, "; ")]

PausedRow(r, t) ==
    [status |-> r.status, filled_fields |-> [fields |-> r.fieldsFilled],
     custom_questions |-> QuestionToJSON(r.questions), user_answers |-> <<>>,
     paused_at |-> <<t>>, current_url |-> <<CurrentURL>>, applied_at |-> <<>>,
     error_log |-> Join(r.errors, "; ")]

FinalRow(r, t) ==
    [status |-> r.status, filled_fields |-> [fields |-> r.fieldsFilled],
     custom_questions |-> <<>>, user_answers |-> <<>>,
     paused_at |-> <<>>, current_url |-> <<>>, applied_at |-> <<t>>,
     error_log |-> Join(r.errors, "; ")]

(* The handler up to its return statement and, when `returns`, the        *)
(* deferred calls that run as it returns.                                  *)
ApplyHandler(profile, nav, page, dbOk, returns) ==
    /\ Len(sessions) < MaxApps
    /\ LET sid == Len(sessions) + 1
           r == ApplyRun(profile, nav, page)
           opened == Clicks(Append(sessions, NewSession(page)), sid, r.clicked)
           id == Len(apps) + 1
           res == [NoResult EXCEPT !.op = "apply", !.page = page, !.sid = sid,
                                   !.tried = r.tried, !.clicked = r.clicked]
       IN  IF ~dbOk
           THEN /\ apps' = apps
                /\ contexts' = contexts
                /\ sessions' = Returned(Deferred(opened, sid, FALSE), sid)
                /\ last' = [res EXCEPT !.code = 500]
           ELSE IF r.status = "paused"
           THEN LET st == Store(contexts, opened, id, sid, now)
                IN  /\ apps' = Append(apps, PausedRow(r, now))
                    /\ contexts' = st.contexts
                    /\ sessions' = IF returns
                                   THEN Returned(Deferred(st.sessions, sid, TRUE), sid)
                                   ELSE st.sessions
                    /\ last' = [res EXCEPT !.code = 200, !.id = id, !.status = "paused",
                                           !.errors = r.errors,
                                           !.fieldsFilled = r.fieldsFilled,
                                           !.questions = r.questions]
           ELSE /\ apps' = Append(apps, FinalRow(r, now))
                /\ contexts' = contexts
                /\ sessions' = Returned(Deferred(opened, sid, FALSE), sid)
                /\ last' = [res EXCEPT !.code = 200, !.id = id, !.status = r.status,
                                       !.errors = r.errors,
                                       !.fieldsFilled = r.fieldsFilled]
    /\ UNCHANGED <<now, lastReap, flights, visitors, jobs, history, pending>>

ApplyToJob(profile, nav, page, dbOk) == ApplyHandler(profile, nav, page, dbOk, TRUE)

(* Served next to other requests: a paused ApplyToJob has stored the       *)
(* session and written its row and its response before its deferred calls *)
(* run, and GetApplications shows the new id to a client meanwhile.        *)
ApplyServe(profile, nav, page, dbOk) == ApplyHandler(profile, nav, page, dbOk, FALSE)

ApplyReturn(sid) ==
    /\ sid \in DOMAIN sessions
    /\ ~sessions[sid].returned
    /\ sessions' = Returned(Deferred(sessions, sid, TRUE), sid)
    /\ UNCHANGED <<apps, contexts, now, lastReap, last, flights, visitors, jobs, history, pending>>

---------------------------------------------------------------------------
(* handlers: ResumeApplication, CancelApplication, GetApplicationStatus *)

AnsweredAlways(question, answers) == TRUE

Answered(question, answers) == question.ID \in DOMAIN answers

(* The loop over the stored questions: the errors and the labels filled *)
RECURSIVE FillAnswers(_, _, _, _, _)
FillAnswers(questions, answers, live, page, acc) ==
    IF questions = <<>> THEN acc
    ELSE LET question == Head(questions)
             err == FillAnswer(live, page, question)
             step ==
                 IF ~Answered(question, answers)
                 THEN IF question.Required
                      THEN [acc EXCEPT !.errors =
                               Append(@, "Missing required answer for: " \o question.Label)]
                      ELSE acc
                 ELSE IF err # ""
                 THEN [acc EXCEPT !.errors =
                          Append(@, "Failed to fill '" \o question.Label \o "': " \o err),
                                  !.tried = @ \cup {question.ID}]
                 ELSE [acc EXCEPT !.fieldsFilled = Append(@, question.Label),
                                  !.tried = @ \cup {question.ID},
                                  !.clicked = Append(@, [stage |-> "answer",
                                                         selector |-> question.Selector])]
         IN  FillAnswers(Tail(questions), answers, live, page, step)

ReturnsToUserBug(errors) == Len(errors) > 1

ReturnsToUserNever(errors) == FALSE

(* if len(errors) > 0: the answers could not all be filled, back to the user *)
ReturnsToUser(errors) == Len(errors) > 0

SubmitOutcomeBug(submitClicked) == IF submitClicked THEN "submitted" ELSE "paused"

SubmitOutcome(submitClicked) == IF submitClicked THEN "submitted" ELSE "failed"

(* The automation of one resume, after the status and session checks: what *)
(* it returns, and what it writes                                          *)
ResumeRun(storedQuestions, answers, live, page, nextPage) ==
    LET f == FillAnswers(storedQuestions, answers, live, page,
                         [errors |-> <<>>, fieldsFilled |-> <<>>, tried |-> {},
                          clicked |-> <<>>])
        base == [status |-> "paused", errors |-> f.errors, fieldsFilled |-> f.fieldsFilled,
                 questions |-> storedQuestions, tried |-> f.tried, clicked |-> f.clicked,
                 newQuestions |-> <<>>, final |-> FALSE, page |-> page]
        hasNext == HasNextButton(live, page)
        nx == ClickNextButton(live, page)
        newQuestions == DetectCustomQuestions(live, nextPage)
        afterNext ==
            IF ~hasNext THEN [base EXCEPT !.tried = @ \cup {"hasNext"}]
            ELSE IF nx = 0
            THEN [base EXCEPT !.tried = @ \cup {"hasNext", "next"},
                              !.errors = Append(@, "Failed to click next button")]
            ELSE [base EXCEPT !.tried = @ \cup {"hasNext", "next", "detect"},
                              !.clicked = Append(@, [stage |-> "next",
                                                     selector |-> nextSelectors[nx]]),
                              !.newQuestions = newQuestions,
                              !.page = nextPage]
        sub == fillField(live, afterNext.page.visible, resumeSubmitSelectors)
    IN  IF ReturnsToUser(f.errors) THEN base
        ELSE IF Len(afterNext.newQuestions) > 0
        THEN [afterNext EXCEPT !.questions = afterNext.newQuestions]
        ELSE [afterNext EXCEPT
                 !.status = SubmitOutcome(sub # 0),
                 !.final = TRUE,
                 !.questions = <<>>,
                 !.tried = @ \cup {"submit"},
                 !.errors = IF sub # 0 THEN @ ELSE Append(@, "Could not find submit button"),
                 !.clicked = IF sub # 0
                             THEN Append(@, [stage |-> "submit",
                                             selector |-> resumeSubmitSelectors[sub]])
                             ELSE @]

NotPausedBug(status) == status \notin {"paused", "cancelled"}

(* if status != "paused": the request is refused *)
NotPaused(status) == status # "paused"

MarkTimeoutBug(as, id) == as

(* UPDATE applications SET status = 'timeout' WHERE id = $1 *)
MarkTimeout(as, id) == [as EXCEPT ![id].status = "timeout"]

SaveAnswersBug(as, id, answers) ==
    LET old == IF as[id].user_answers = <<>> THEN EmptyMap ELSE as[id].user_answers[1]
    IN  [as EXCEPT ![id].user_answers =
            <<[k \in DOMAIN old \cup DOMAIN answers |->
                 IF k \in DOMAIN answers THEN answers[k] ELSE old[k]]>>]

(* UPDATE applications SET user_answers = $1 WHERE id = $2, with toJSON(req.Answers) *)
SaveAnswers(as, id, answers) == [as EXCEPT ![id].user_answers = <<answers>>]

ResumeApplication(id, answers, nextPage) ==
    LET res == [NoResult EXCEPT !.op = "resume", !.id = id,
                                !.had = (id \in DOMAIN contexts)]
    IN
    /\ IF id \notin DOMAIN apps \/ (id \in DOMAIN apps /\ apps[id].current_url = <<>>)
       THEN \* no row, or Scan of a NULL current_url into a string fails
            /\ last' = [res EXCEPT !.code = 404,
                                   !.errors = <<"Application not found">>,
                                   !.was = IF id \in DOMAIN apps THEN apps[id].status ELSE ""]
            /\ UNCHANGED <<apps, contexts, sessions>>
       ELSE IF NotPaused(apps[id].status)
       THEN /\ last' = [res EXCEPT !.code = 400, !.was = apps[id].status,
                           !.errors = <<"Application is not paused (current status: "
                                        \o apps[id].status \o ")">>]
            /\ UNCHANGED <<apps, contexts, sessions>>
       ELSE IF ~Get(contexts, id).exists
       THEN /\ apps' = MarkTimeout(apps, id)
            /\ last' = [res EXCEPT !.code = 410, !.was = "paused",
                           !.errors = <<"Browser session expired. Please start a new application.">>]
            /\ UNCHANGED <<contexts, sessions>>
       ELSE LET browserCtx == Get(contexts, id).ctx
                sid == browserCtx.sid
                live == ~sessions[sid].ctxDone
                page == sessions[sid].page
                storedQuestions == JSONToQuestions(apps[id].custom_questions)
                r == ResumeRun(storedQuestions, answers, live, page, nextPage)
                saved == SaveAnswers(apps, id, answers)
                moved == Clicks([sessions EXCEPT ![sid].page = r.page], sid, r.clicked)
                rm == Remove(contexts, moved, id)
                out == [res EXCEPT !.code = 200, !.was = "paused", !.status = r.status,
                                   !.sid = sid, !.page = page, !.answers = answers,
                                   !.stored = storedQuestions,
                                   !.errors = r.errors, !.fieldsFilled = r.fieldsFilled,
                                   !.questions = r.questions, !.tried = r.tried,
                                   !.clicked = r.clicked]
            IN  IF r.final
                THEN /\ apps' = [saved EXCEPT
                                    ![id].status = r.status,
                                    ![id].applied_at = <<now>>,
                                    ![id].error_log = IF Len(r.errors) > 0
                                                      THEN SprintfV(r.errors) ELSE ""]
                     /\ contexts' = rm.contexts
                     /\ sessions' = rm.sessions
                     /\ last' = out
                ELSE /\ apps' = IF Len(r.newQuestions) > 0
                                THEN [saved EXCEPT ![id].custom_questions =
                                                       QuestionToJSON(r.newQuestions)]
                                ELSE saved
                     /\ contexts' = contexts
                     /\ sessions' = moved
                     /\ last' = out
    /\ UNCHANGED <<now, lastReap, flights, visitors, jobs, history, pending>>

(* The pages a continue click may lead to; the click needs a running context *)
NextPages(id) ==
    IF Get(contexts, id).exists /\ ~sessions[contexts[id].sid].ctxDone
    THEN FollowPages ELSE {NoPage}

CancelApplication(id) ==
    /\ LET rm == Remove(contexts, sessions, id)
       IN  /\ contexts' = rm.contexts
           /\ sessions' = rm.sessions
    /\ apps' = IF id \in DOMAIN apps THEN [apps EXCEPT ![id].status = "cancelled"] ELSE apps
    /\ last' = [NoResult EXCEPT !.op = "cancel", !.id = id, !.code = 200,
                                !.status = "cancelled",
                                !.had = (id \in DOMAIN contexts),
                                !.sid = Get(contexts, id).ctx.sid,
                                !.was = IF id \in DOMAIN apps THEN apps[id].status ELSE ""]
    /\ UNCHANGED <<now, lastReap, flights, visitors, jobs, history, pending>>

GetApplicationStatus(id) ==
    /\ IF id \notin DOMAIN apps
       THEN last' = [NoResult EXCEPT !.op = "status", !.id = id, !.code = 404,
                                     !.errors = <<"Application not found">>]
       ELSE last' = [NoResult EXCEPT
                        !.op = "status", !.id = id, !.code = 200,
                        !.status = apps[id].status, !.was = apps[id].status,
                        !.questions = IF apps[id].status = "paused"
                                         /\ Len(apps[id].custom_questions) > 0
                                      THEN JSONToQuestions(apps[id].custom_questions)
                                      ELSE <<>>,
                        !.exists = Get(contexts, id).exists]
    /\ UNCHANGED <<apps, contexts, sessions, now, lastReap, flights, visitors, jobs, history, pending>>

---------------------------------------------------------------------------
(* ResumeApplication and CancelApplication served concurrently: net/http    *)
(* runs every request on a goroutine of its own, and the handlers take no   *)
(* lock and open no transaction, so two requests interleave between any two *)
(* statements on the table or the registry.  A request takes the lowest     *)
(* idle slot of `flights`.                                                 *)

Idle == [pc |-> "idle", id |-> 0, answers |-> EmptyMap, questions |-> <<>>,
         sid |-> 0, run |-> <<>>, known |-> FALSE]

FreeSlot(s) == flights[s].pc = "idle" /\ \A t \in 1..(s - 1) : flights[t].pc # "idle"

Done(s, res) ==
    /\ flights' = [flights EXCEPT ![s] = [Idle EXCEPT !.pc = "done"]]
    /\ last' = res

(* SELECT user_id, job_id, status, custom_questions, current_url, and the status check *)
ResumeRead(s, id, answers) ==
    LET res == [NoResult EXCEPT !.op = "resume", !.id = id]
    IN
    /\ FreeSlot(s)
    /\ IF id \notin DOMAIN apps \/ (id \in DOMAIN apps /\ apps[id].current_url = <<>>)
       THEN /\ flights' = [flights EXCEPT ![s] = [Idle EXCEPT !.pc = "done"]]
            /\ last' = [res EXCEPT !.code = 404, !.errors = <<"Application not found">>]
       ELSE IF NotPaused(apps[id].status)
       THEN /\ flights' = [flights EXCEPT ![s] = [Idle EXCEPT !.pc = "done"]]
            /\ last' = [res EXCEPT !.code = 400, !.was = apps[id].status,
                           !.errors = <<"Application is not paused (current status: "
                                        \o apps[id].status \o ")">>]
       ELSE /\ flights' = [flights EXCEPT ![s] =
                              [Idle EXCEPT !.pc = "get", !.id = id, !.answers = answers,
                                           !.questions = apps[id].custom_questions]]
            /\ last' = last
    /\ UNCHANGED <<apps, contexts, sessions, now, lastReap, visitors, jobs, history, pending>>

(* browserCtx, exists := h.browserManager.Get(applicationID) *)
ResumeGet(s) ==
    /\ flights[s].pc = "get"
    /\ LET g == Get(contexts, flights[s].id)
       IN  flights' = [flights EXCEPT ![s].pc = IF g.exists THEN "run" ELSE "expire",
                                      ![s].sid = g.ctx.sid]
    /\ UNCHANGED <<apps, contexts, sessions, now, lastReap, last, visitors, jobs, history, pending>>

(* the session is gone: answer 410 and UPDATE status = 'timeout' *)
ResumeExpire(s) ==
    /\ flights[s].pc = "expire"
    /\ apps' = MarkTimeout(apps, flights[s].id)
    /\ Done(s, [NoResult EXCEPT
                   !.op = "resume", !.id = flights[s].id, !.code = 410,
                   !.errors = <<"Browser session expired. Please start a new application.">>])
    /\ UNCHANGED <<contexts, sessions, now, lastReap, visitors, jobs, history, pending>>

(* the automation on the context the request holds, with the writes of     *)
(* user_answers and, on a further page of questions, of custom_questions   *)
ResumeAutomate(s, nextPage) ==
    /\ flights[s].pc = "run"
    /\ LET f == flights[s]
           live == ~sessions[f.sid].ctxDone
           page == sessions[f.sid].page
           storedQuestions == JSONToQuestions(f.questions)
           r == ResumeRun(storedQuestions, f.answers, live, page, nextPage)
           saved == SaveAnswers(apps, f.id, f.answers)
       IN  /\ nextPage \in (IF live THEN FollowPages ELSE {NoPage})
           /\ sessions' = Clicks([sessions EXCEPT ![f.sid].page = r.page], f.sid, r.clicked)
           /\ IF r.final
              THEN /\ apps' = saved
                   /\ flights' = [flights EXCEPT ![s].pc = "finish", ![s].run = <<r>>]
                   /\ last' = last
              ELSE /\ apps' = IF Len(r.newQuestions) > 0
                               THEN [saved EXCEPT ![f.id].custom_questions =
                                                      QuestionToJSON(r.newQuestions)]
                               ELSE saved
                   /\ Done(s, [NoResult EXCEPT
                                  !.op = "resume", !.id = f.id, !.code = 200,
                                  !.status = r.status])
    /\ UNCHANGED <<contexts, now, lastReap, visitors, jobs, history, pending>>

(* UPDATE applications SET status = $1, applied_at = $2, error_log = $3 *)
ResumeFinish(s) ==
    /\ flights[s].pc = "finish"
    /\ LET f == flights[s]
           r == f.run[1]
       IN  apps' = [apps EXCEPT
                       ![f.id].status = r.status,
                       ![f.id].applied_at = <<now>>,
                       ![f.id].error_log = IF Len(r.errors) > 0
                                           THEN SprintfV(r.errors) ELSE ""]
    /\ flights' = [flights EXCEPT ![s].pc = "remove"]
    /\ UNCHANGED <<contexts, sessions, now, lastReap, last, visitors, jobs, history, pending>>

(* h.browserManager.Remove(applicationID), then the response *)
ResumeRemove(s) ==
    /\ flights[s].pc = "remove"
    /\ LET f == flights[s]
           rm == Remove(contexts, sessions, f.id)
           r == f.run[1]
       IN  /\ contexts' = rm.contexts
           /\ sessions' = rm.sessions
           /\ Done(s, [NoResult EXCEPT
                          !.op = "resume", !.id = f.id, !.code = 200,
                          !.status = r.status])
    /\ UNCHANGED <<apps, now, lastReap, visitors, jobs, history, pending>>

(* h.browserManager.Remove(applicationID) of CancelApplication.  Row ids  *)
(* are UUIDs the database generates at INSERT, so an id that names no row  *)
(* when the request is made names none later either: `known`.              *)
CancelRemove(s, id) ==
    /\ FreeSlot(s)
    /\ LET rm == Remove(contexts, sessions, id)
       IN  /\ contexts' = rm.contexts
           /\ sessions' = rm.sessions
    /\ flights' = [flights EXCEPT ![s] = [Idle EXCEPT !.pc = "cancel", !.id = id,
                                                      !.known = id \in DOMAIN apps]]
    /\ UNCHANGED <<apps, now, lastReap, last, visitors, jobs, history, pending>>

(* UPDATE applications SET status = 'cancelled', then the response *)
CancelUpdate(s) ==
    /\ flights[s].pc = "cancel"
    /\ apps' = IF flights[s].known
               THEN [apps EXCEPT ![flights[s].id].status = "cancelled"] ELSE apps
    /\ Done(s, [NoResult EXCEPT !.op = "cancel", !.id = flights[s].id, !.code = 200,
                                !.status = "cancelled"])
    /\ UNCHANGED <<contexts, sessions, now, lastReap, visitors, jobs, history, pending>>

---------------------------------------------------------------------------
(* Time and the reaper *)

Tick ==
    /\ now < MaxTime
    /\ now - lastReap < ReapInterval
    /\ now' = now + 1
    /\ last' = [NoResult EXCEPT !.op = "tick"]
    /\ UNCHANGED <<apps, contexts, sessions, lastReap, flights, visitors, jobs, history, pending>>

cleanupLoop ==
    /\ now - lastReap >= ReapInterval
    /\ LET r == CleanupExpired(contexts, sessions, now)
       IN  /\ contexts' = r.contexts
           /\ sessions' = r.sessions
           /\ last' = [NoResult EXCEPT !.op = "CleanupExpired",
                                       !.code = r.n,
                                       !.evicted = r.expired,
                                       !.ages = [id \in DOMAIN contexts |->
                                                    now - contexts[id].CreatedAt]]
    /\ lastReap' = now
    /\ UNCHANGED <<apps, now, flights, visitors, jobs, history, pending>>

---------------------------------------------------------------------------
(* The registry driven directly by a caller *)

RegStore(id) ==
    /\ Len(sessions) < MaxSessions
    /\ LET sid == Len(sessions) + 1
           r == Store(contexts, Append(sessions, NewSession(NoPage)), id, sid, now)
       IN  /\ contexts' = r.contexts
           /\ sessions' = r.sessions
           /\ last' = [NoResult EXCEPT !.op = "Store", !.id = id, !.sid = sid,
                                       !.had = (id \in DOMAIN contexts)]
    /\ UNCHANGED <<apps, now, lastReap, flights, visitors, jobs, history, pending>>

RegGet(id) ==
    /\ LET g == Get(contexts, id)
       IN  last' = [NoResult EXCEPT !.op = "Get", !.id = id,
                                    !.exists = g.exists, !.sid = g.ctx.sid]
    /\ UNCHANGED <<apps, contexts, sessions, now, lastReap, flights, visitors, jobs, history, pending>>

RegRemove(id) ==
    /\ LET r == Remove(contexts, sessions, id)
       IN  /\ contexts' = r.contexts
           /\ sessions' = r.sessions
           /\ last' = [NoResult EXCEPT !.op = "Remove", !.id = id,
                                       !.had = (id \in DOMAIN contexts)]
    /\ UNCHANGED <<apps, now, lastReap, flights, visitors, jobs, history, pending>>

RegShutdown ==
    /\ LET r == Shutdown(contexts, sessions)
       IN  /\ contexts' = r.contexts
           /\ sessions' = r.sessions
           /\ last' = [NoResult EXCEPT !.op = "Shutdown",
                                       !.code = Count(contexts),
                                       !.ages = [id \in DOMAIN contexts |->
                                                    now - contexts[id].CreatedAt]]
    /\ UNCHANGED <<apps, now, lastReap, flights, visitors, jobs, history, pending>>

---------------------------------------------------------------------------
(* middleware: RateLimiter *)

Ips == {"203.0.113.7", "198.51.100.9"}

NewVisitor(t) == [tokens |-> Rate, lastSeen |-> t, violations |-> 0]

RefillAtWindow(v, t) ==
    IF t - v.lastSeen >= Window THEN [v EXCEPT !.tokens = Rate, !.lastSeen = t] ELSE v

(* Refill tokens based on time passed: only when more than a whole window   *)
(* has passed since lastSeen, and then back to the full rate.               *)
Refill(v, t) ==
    IF t - v.lastSeen > Window THEN [v EXCEPT !.tokens = Rate, !.lastSeen = t] ELSE v

getVisitor(vs, ip, t) ==
    LET v == IF ip \in DOMAIN vs THEN vs[ip] ELSE NewVisitor(t)
    IN  Put(vs, ip, Refill(v, t))

(* One request through the limiter; admitted means next.ServeHTTP is called *)
Middleware(ip) ==
    /\ Len(history) < MaxRequests
    /\ LET vs == getVisitor(visitors, ip, now)
           v == vs[ip]
           admitted == v.violations <= MaxViolations /\ v.tokens > 0
       IN  /\ visitors' =
                 IF v.violations > MaxViolations THEN vs
                 ELSE IF v.tokens <= 0 THEN [vs EXCEPT ![ip].violations = @ + 1]
                 ELSE [vs EXCEPT ![ip].tokens = @ - 1, ![ip].lastSeen = now]
           /\ last' = [NoResult EXCEPT !.op = "Middleware",
                                       !.code = IF admitted THEN 0 ELSE 429]
           /\ history' = Append(history, [op |-> "request", ip |-> ip, at |-> now,
                                          admitted |-> admitted])
    /\ UNCHANGED <<apps, contexts, sessions, now, lastReap, flights, jobs, pending>>

cleanupVisitors ==
    /\ LET stale == {ip \in DOMAIN visitors : now - visitors[ip].lastSeen > StaleAfter}
       IN  /\ visitors' = Drop(visitors, stale)
           /\ last' = [NoResult EXCEPT !.op = "cleanupVisitors", !.code = Cardinality(stale)]
    /\ UNCHANGED <<apps, contexts, sessions, now, lastReap, flights, jobs, history, pending>>

(* The limiter with requests of one visitor served at the same time.      *)
(* getVisitor runs under rl.mu; the handler then reads and writes the      *)
(* visitor it got without the lock.                                        *)

NoRequest == [pc |-> "idle", ip |-> "", tokens |-> 0]

(* v := rl.getVisitor(ip) *)
MwGetVisitor(s, ip) ==
    /\ pending[s].pc = "idle"
    /\ Len(history) + Cardinality({t \in 1..MaxFlights : pending[t].pc # "idle"}) < MaxRequests
    /\ visitors' = getVisitor(visitors, ip, now)
    /\ pending' = [pending EXCEPT ![s] = [NoRequest EXCEPT !.pc = "check", !.ip = ip]]
    /\ UNCHANGED <<apps, contexts, sessions, now, lastReap, last, flights, jobs, history>>

(* if v.violations > 10 {...}; if v.tokens <= 0 { v.violations++ ... } *)
MwCheck(s) ==
    /\ pending[s].pc = "check"
    /\ LET ip == pending[s].ip
           v == visitors[ip]
           Reject ==
               /\ pending' = [pending EXCEPT ![s] = NoRequest]
               /\ last' = [NoResult EXCEPT !.op = "Middleware", !.code = 429]
               /\ history' = Append(history, [op |-> "request", ip |-> ip, at |-> now,
                                              admitted |-> FALSE])
       IN  IF v.violations > MaxViolations
           THEN Reject /\ visitors' = visitors
           ELSE IF v.tokens <= 0
           THEN Reject /\ visitors' = [visitors EXCEPT ![ip].violations = @ + 1]
           ELSE /\ pending' = [pending EXCEPT ![s].pc = "take", ![s].tokens = v.tokens]
                /\ UNCHANGED <<visitors, last, history>>
    /\ UNCHANGED <<apps, contexts, sessions, now, lastReap, flights, jobs>>

(* v.tokens--; v.lastSeen = time.Now(); next.ServeHTTP(w, r).  The         *)
(* decrement is an unsynchronised load and store: it writes one less than  *)
(* the count as it is now, or one less than the count a stale load saw.    *)
MwTake(s, stale) ==
    /\ pending[s].pc = "take"
    /\ LET ip == pending[s].ip
           seen == IF stale THEN pending[s].tokens ELSE visitors[ip].tokens
       IN  /\ visitors' = [visitors EXCEPT ![ip].tokens = seen - 1, ![ip].lastSeen = now]
           /\ history' = Append(history, [op |-> "request", ip |-> ip, at |-> now,
                                          admitted |-> TRUE])
    /\ pending' = [pending EXCEPT ![s] = NoRequest]
    /\ last' = [NoResult EXCEPT !.op = "Middleware", !.code = 0]
    /\ UNCHANGED <<apps, contexts, sessions, now, lastReap, flights, jobs>>

---------------------------------------------------------------------------
(* handlers: ScrapeJobs *)

Keywords == {"", "Software Engineer", "Data Science"}

Locations == {"", "Remote"}

Urls == <<"https://www.themuse.com/jobs/acme/engineer",
          "https://www.themuse.com/jobs/initech/analyst">>

(* What MuseScraper.Scrape returns: the landing pages of the postings the   *)
(* API lists for the category and location, or an error.                    *)
ApiError == <<"API request failed">>

ApiResults == {<<>>, <<Urls[1]>>, <<Urls[2]>>, <<Urls[1], Urls[2]>>, ApiError}

(* The cache key: the hash of "keywords|location"; the model keeps the      *)
(* hashed text in place of its SHA-256 digest.                              *)
generateSearchHash(keywords, location) == keywords \o "|" \o location

cachedCount(table, searchHash, t) ==
    Cardinality({u \in DOMAIN table :
                    /\ table[u].search_params_hash = searchHash
                    /\ table[u].cached_at > t - CacheTTL})

(* INSERT ... ON CONFLICT (url) DO UPDATE SET search_params_hash, cached_at *)
Upsert(table, url, searchHash, t) ==
    Put(table, url, [search_params_hash |-> searchHash, cached_at |-> t])

RECURSIVE InsertJobs(_, _, _, _)
InsertJobs(table, found, searchHash, t) ==
    IF found = <<>> THEN table
    ELSE InsertJobs(Upsert(table, Head(found), searchHash, t), Tail(found), searchHash, t)

deleteOld(table, t) == Drop(table, {u \in DOMAIN table : table[u].cached_at < t - PurgeAge})

ScrapeJobs(keywords, location, api, dbOk) ==
    /\ Len(history) < MaxScrapes
    /\ LET searchHash == generateSearchHash(keywords, location)
           n == IF dbOk THEN cachedCount(jobs, searchHash, now) ELSE 0
           Answer(fromCache, count) ==
               /\ last' = [NoResult EXCEPT !.op = "ScrapeJobs", !.code = 200,
                                           !.from_cache = fromCache,
                                           !.jobs_scraped = count]
               /\ history' = Append(history,
                                 [op |-> "scrape", keywords |-> keywords,
                                  location |-> location, at |-> now,
                                  from_cache |-> fromCache, jobs_scraped |-> count,
                                  db |-> dbOk])
       IN  IF keywords = "" \/ location = ""
           THEN /\ last' = [NoResult EXCEPT !.op = "ScrapeJobs", !.code = 400]
                /\ UNCHANGED <<jobs, history>>
           ELSE IF n > 0
           THEN /\ Answer(TRUE, n)
                /\ jobs' = jobs
           ELSE IF api = ApiError
           THEN /\ last' = [NoResult EXCEPT !.op = "ScrapeJobs", !.code = 500]
                /\ UNCHANGED <<jobs, history>>
           ELSE IF dbOk
           THEN /\ Answer(FALSE, Len(api))
                /\ jobs' = deleteOld(InsertJobs(jobs, api, searchHash, now), now)
           ELSE /\ Answer(FALSE, 0)
                /\ jobs' = jobs
    /\ UNCHANGED <<apps, contexts, sessions, now, lastReap, flights, visitors, pending>>

Init ==
    /\ apps = <<>>
    /\ contexts = EmptyMap
    /\ sessions = <<>>
    /\ now = 0
    /\ lastReap = 0
    /\ last = NoResult
    /\ flights = [s \in 1..MaxFlights |-> Idle]
    /\ visitors = EmptyMap
    /\ jobs = EmptyMap
    /\ history = <<>>
    /\ pending = [s \in 1..MaxFlights |-> NoRequest]

RegNext ==
    \/ \E id \in AppIds : RegStore(id)
    \/ \E id \in AppIds : RegGet(id)
    \/ \E id \in AppIds : RegRemove(id)
    \/ RegShutdown
    \/ cleanupLoop
    \/ Tick

RegSpec == Init /\ [][RegNext]_vars

Next ==
    \/ \E profile \in Profiles, nav \in BOOLEAN, page \in Pages, dbOk \in BOOLEAN :
          ApplyToJob(profile, nav, page, dbOk)
    \/ \E id \in AppIds, answers \in AnswerMaps :
          \E nextPage \in NextPages(id) : ResumeApplication(id, answers, nextPage)
    \/ \E id \in AppIds : CancelApplication(id)
    \/ \E id \in AppIds : GetApplicationStatus(id)
    \/ cleanupLoop
    \/ Tick

Spec == Init /\ [][Next]_vars

RaceNext ==
    \/ \E profile \in Profiles, nav \in BOOLEAN, page \in Pages, dbOk \in BOOLEAN :
          ApplyServe(profile, nav, page, dbOk)
    \/ \E sid \in 1..MaxApps : ApplyReturn(sid)
    \/ \E s \in 1..MaxFlights, id \in AppIds, answers \in KnownAnswerMaps :
          ResumeRead(s, id, answers)
    \/ \E s \in 1..MaxFlights : ResumeGet(s)
    \/ \E s \in 1..MaxFlights : ResumeExpire(s)
    \/ \E s \in 1..MaxFlights, nextPage \in FollowPages \cup {NoPage} :
          ResumeAutomate(s, nextPage)
    \/ \E s \in 1..MaxFlights : ResumeFinish(s)
    \/ \E s \in 1..MaxFlights : ResumeRemove(s)
    \/ \E s \in 1..MaxFlights, id \in AppIds : CancelRemove(s, id)
    \/ \E s \in 1..MaxFlights : CancelUpdate(s)
    \/ cleanupLoop
    \/ Tick

RaceSpec == Init /\ [][RaceNext]_vars

DetectNext == \E dom \in Doms : DetectPage(dom)

DetectSpec == Init /\ [][DetectNext]_vars

LimitNext ==
    \/ \E ip \in Ips : Middleware(ip)
    \/ cleanupVisitors
    \/ cleanupLoop
    \/ Tick

LimitSpec == Init /\ [][LimitNext]_vars

LimitRaceNext ==
    \/ \E s \in 1..MaxFlights, ip \in Ips : MwGetVisitor(s, ip)
    \/ \E s \in 1..MaxFlights : MwCheck(s)
    \/ \E s \in 1..MaxFlights, stale \in BOOLEAN : MwTake(s, stale)
    \/ cleanupLoop
    \/ Tick

LimitRaceSpec == Init /\ [][LimitRaceNext]_vars

CacheNext ==
    \/ \E keywords \in Keywords, location \in Locations, api \in ApiResults, dbOk \in BOOLEAN :
          ScrapeJobs(keywords, location, api, dbOk)
    \/ cleanupLoop
    \/ Tick

CacheSpec == Init /\ [][CacheNext]_vars

---------------------------------------------------------------------------
(* Properties *)

Range(seq) == {seq[i] : i \in 1..Len(seq)}

Terminal == {"submitted", "failed", "cancelled", "timeout"}

Edges ==
    ({"in_progress"} \X {"paused", "submitted", "failed"})
    \cup ({"paused"} \X {"paused", "submitted", "failed", "cancelled", "timeout"})

Resumed == last.op = "resume" /\ last.code = 200

MissingRequired(q) == q.Required /\ q.ID \notin DOMAIN last.answers

AllRequiredAnswered == \A q \in Range(last.stored) : ~MissingRequired(q)

FillFailed(q) == q.ID \in DOMAIN last.answers /\ q.Label \notin Range(last.fieldsFilled)

HasControl(selectors, page) == \E i \in 1..Len(selectors) : selectors[i] \in page.visible

(* C1: the persisted status of every Application only moves along the edges *)
(* of the lifecycle graph; a submitted, failed, cancelled or timeout status *)
(* is never changed by any later operation.                                 *)
C1_StatusWalk ==
    [][\A id \in DOMAIN apps :
          \/ apps'[id].status = apps[id].status
          \/ <<apps[id].status, apps'[id].status>> \in Edges]_vars

(* C2: every session held by the registry is live: its context has been     *)
(* neither cancelled nor released, in particular not by the ApplyToJob that *)
(* stored it.                                                               *)
C2_RegisteredSessionLive ==
    \A id \in DOMAIN contexts : Live(sessions, contexts[id].sid)

(* C3: a resume that answers the single required textarea question of a     *)
(* paused application, on a page showing the question's control and a       *)
(* submit control and no continue control, fills the answer, clicks submit  *)
(* and returns and persists submitted.                                      *)
C3_ResumeSubmits ==
    (/\ Resumed
     /\ Len(last.stored) = 1
     /\ last.stored[1].Type = "textarea"
     /\ last.stored[1].Required
     /\ last.stored[1].ID \in DOMAIN last.answers
     /\ last.stored[1].Selector \in last.page.visible
     /\ HasControl(resumeSubmitSelectors, last.page)
     /\ ~last.page.hasNext)
    => /\ last.status = "submitted"
       /\ apps[last.id].status = "submitted"
       /\ last.fieldsFilled = <<last.stored[1].Label>>
       /\ \E c \in Range(last.clicked) : c.stage = "submit"

(* C4: the registry holds at most one live session per application id: the  *)
(* live sessions are exactly the ones the map refers to, each under one id; *)
(* right after Store(id, s), Get(id) returns s, and the session that was    *)
(* stored under id before is no longer live.                                *)
C4_OneLiveSessionPerId ==
    /\ \A s \in DOMAIN sessions :
          Live(sessions, s) <=> (\E id \in DOMAIN contexts : contexts[id].sid = s)
    /\ \A i, j \in DOMAIN contexts : contexts[i].sid = contexts[j].sid => i = j
    /\ last.op = "Store" =>
          /\ Get(contexts, last.id).exists
          /\ Get(contexts, last.id).ctx = BrowserContext(last.sid, now)

C4_Witness == last.op = "Store" /\ last.had /\ Count(contexts) = NumIds

(* C5: a reaper pass evicts exactly the sessions whose age exceeds the idle *)
(* timeout (one of age equal to the timeout or less stays), the evicted     *)
(* sessions are released, and no session stays registered for more than    *)
(* one reaper interval past the timeout.                                    *)
C5_Reaper ==
    /\ last.op = "CleanupExpired" =>
          /\ \A id \in DOMAIN last.ages :
                (id \in DOMAIN contexts) <=> (last.ages[id] <= Timeout)
          /\ last.code = Cardinality(DOMAIN last.ages \ DOMAIN contexts)
          /\ \A s \in DOMAIN sessions :
                Live(sessions, s) => (\E id \in DOMAIN contexts : contexts[id].sid = s)
    /\ \A id \in DOMAIN contexts : now - contexts[id].CreatedAt <= Timeout + ReapInterval

C5_Witness ==
    /\ last.op = "CleanupExpired"
    /\ \E id \in DOMAIN last.ages : last.ages[id] > Timeout /\ id \notin DOMAIN contexts
    /\ \E id \in DOMAIN contexts : last.ages[id] = Timeout

(* C6: a reaper pass sets the persisted status of every Application whose   *)
(* session it evicts to timeout.                                            *)
C6_ReapMarksTimeout ==
    last.op = "CleanupExpired" =>
        \A id \in last.evicted : id \in DOMAIN apps => apps[id].status = "timeout"

(* C7: a resume whose answer map lacks a stored required question returns   *)
(* paused with the stored question list and an error naming the question's  *)
(* label, attempts no fill for it, and leaves the status paused and the     *)
(* session registered.                                                      *)
C7_MissingRequiredStaysPaused ==
    (Resumed /\ ~AllRequiredAnswered) =>
        /\ last.status = "paused"
        /\ last.questions = last.stored
        /\ last.questions = JSONToQuestions(apps[last.id].custom_questions)
        /\ \A q \in Range(last.stored) :
              MissingRequired(q) =>
                  /\ ("Missing required answer for: " \o q.Label) \in Range(last.errors)
                  /\ q.ID \notin last.tried
        /\ apps[last.id].status = "paused"
        /\ Get(contexts, last.id).exists
        /\ Get(contexts, last.id).ctx.sid = last.sid

C7_Witness ==
    /\ Resumed
    /\ ~AllRequiredAnswered
    /\ last.status = "paused"
    /\ Len(last.errors) = 1

(* C8, as claimed: a resume with an answer for every stored required        *)
(* question, on a page with no continue control, ends submitted or failed   *)
(* whatever the outcome of the answer fills.                                *)
C8_NeverPaused ==
    (Resumed /\ AllRequiredAnswered /\ ~last.page.hasNext) =>
        last.status \in {"submitted", "failed"}

(* C8, amended: such a resume ends submitted or failed when no attempted    *)
(* answer fill fails, and paused when one does.                             *)
C8_PausedIffFillFailed ==
    (Resumed /\ AllRequiredAnswered /\ ~last.page.hasNext) =>
        /\ (\E q \in Range(last.stored) : FillFailed(q)) <=> last.status = "paused"
        /\ (\A q \in Range(last.stored) : ~FillFailed(q)) <=>
               last.status \in {"submitted", "failed"}
        /\ apps[last.id].status = last.status

C8_Witness ==
    /\ Resumed
    /\ AllRequiredAnswered
    /\ ~last.page.hasNext
    /\ last.stored # <<>>
    /\ last.status \in {"submitted", "failed"}

(* C9: cancelling a paused Application releases its session, removes its    *)
(* registry entry and persists cancelled; the status endpoint reports an    *)
(* active session exactly when the registry holds an entry.                 *)
C9_CancelPaused ==
    /\ (last.op = "cancel" /\ last.was = "paused") =>
          /\ apps[last.id].status = "cancelled"
          /\ last.status = "cancelled"
          /\ ~Get(contexts, last.id).exists
          /\ \A id \in DOMAIN contexts : contexts[id].sid # last.sid
          /\ last.had => /\ sessions[last.sid].ctxDone
                         /\ sessions[last.sid].cancelCalls >= 1
    /\ (last.op = "status" /\ last.code = 200) =>
          last.exists = Get(contexts, last.id).exists

C9_Witness ==
    /\ last.op = "cancel"
    /\ last.was = "paused"
    /\ last.had
    /\ apps[last.id].status = "cancelled"

(* C10: an ApplyToJob whose page shows no apply control persists and returns *)
(* failed with exactly the error "Could not find Apply button"; it fills no  *)
(* field, detects no question, attempts no submit, releases the session and  *)
(* leaves no registry entry for it.                                          *)
C10_NoApplyControl ==
    (/\ last.op = "apply"
     /\ "apply" \in last.tried
     /\ ~HasControl(applySelectors, last.page)) =>
        /\ last.tried = {"navigate", "apply"}
        /\ last.clicked = <<>>
        /\ sessions[last.sid].cancelCalls = 1
        /\ sessions[last.sid].ctxDone
        /\ \A id \in DOMAIN contexts : contexts[id].sid # last.sid
        /\ last.code = 200 =>
              /\ last.status = "failed"
              /\ last.errors = <<"Could not find Apply button">>
              /\ last.fieldsFilled = <<>>
              /\ last.questions = <<>>
              /\ apps[last.id].status = "failed"
              /\ apps[last.id].error_log = "Could not find Apply button"
              /\ apps[last.id].filled_fields.fields = <<>>
              /\ ~Get(contexts, last.id).exists

C10_Witness ==
    /\ last.op = "apply"
    /\ last.code = 200
    /\ "apply" \in last.tried
    /\ ~HasControl(applySelectors, last.page)
    /\ last.status = "failed"

(* C11: a resume of an Application whose status is not paused is refused    *)
(* with an error and changes nothing: the row, the registry and the         *)
(* sessions stay as they were and no fill, click or detection is made.      *)
C11_NotPausedRejected ==
    [][\A id \in DOMAIN apps :
          (last'.op = "resume" /\ last'.id = id /\ apps[id].status # "paused") =>
              /\ last'.code \in {400, 404}
              /\ last'.errors # <<>>
              /\ apps' = apps
              /\ contexts' = contexts
              /\ sessions' = sessions
              /\ last'.tried = {}
              /\ last'.clicked = <<>>
              /\ last'.fieldsFilled = <<>>]_vars

C11_Witness ==
    /\ last.op = "resume"
    /\ last.code = 400
    /\ last.was \in Terminal
    /\ apps[last.id].status = last.was

(* C12: a resume of a paused Application whose id has no registry entry     *)
(* persists timeout and answers session expired, fills nothing and saves no *)
(* answers; from then on the status is never paused again and every resume  *)
(* of that Application is refused.                                          *)
C12_ExpiredSessionTimesOut ==
    [][\A id \in DOMAIN apps :
          /\ (/\ last'.op = "resume"
              /\ last'.id = id
              /\ apps[id].status = "paused"
              /\ ~Get(contexts, id).exists) =>
                 /\ last'.code = 410
                 /\ last'.errors = <<"Browser session expired. Please start a new application.">>
                 /\ apps' = [apps EXCEPT ![id].status = "timeout"]
                 /\ apps'[id].user_answers = apps[id].user_answers
                 /\ contexts' = contexts
                 /\ sessions' = sessions
                 /\ last'.tried = {}
                 /\ last'.clicked = <<>>
          /\ apps[id].status = "timeout" => apps'[id].status # "paused"
          /\ (last'.op = "resume" /\ last'.id = id /\ apps[id].status = "timeout") =>
                 /\ last'.code = 400
                 /\ apps' = apps]_vars

C12_Witness ==
    /\ last.op = "resume"
    /\ last.code = 400
    /\ last.was = "timeout"
    /\ apps[last.id].status = "timeout"

(* C13: with resume, cancel and reaper steps interleaved on one Application, *)
(* a persisted cancelled is never overwritten, so a cancel that completes    *)
(* while a resume is in flight leaves the Application cancelled, and a       *)
(* persisted submitted or failed is never replaced by timeout.               *)
C13_TerminalKeptUnderRaces ==
    [][\A id \in DOMAIN apps :
          /\ apps[id].status = "cancelled" => apps'[id].status = "cancelled"
          /\ apps[id].status \in {"submitted", "failed"} => apps'[id].status # "timeout"]_vars

(* C14: an ApplyToJob whose question detection returns at least one         *)
(* question persists a new row with status paused, the detected list as     *)
(* custom_questions, current_url and paused_at set, stores the session in   *)
(* the registry under the new id, attempts no submit and returns paused     *)
(* with exactly the detected list.                                          *)
C14_DetectedQuestionsPause ==
    (/\ last.op = "apply"
     /\ last.code = 200
     /\ "detect" \in last.tried
     /\ last.page.questions # <<>>) =>
        /\ last.status = "paused"
        /\ last.questions = last.page.questions
        /\ last.id = Len(apps)
        /\ apps[last.id].status = "paused"
        /\ JSONToQuestions(apps[last.id].custom_questions) = last.page.questions
        /\ apps[last.id].current_url = <<CurrentURL>>
        /\ apps[last.id].paused_at = <<now>>
        /\ Get(contexts, last.id).exists
        /\ Get(contexts, last.id).ctx = BrowserContext(last.sid, now)
        /\ "submit" \notin last.tried
        /\ \A c \in Range(last.clicked) : c.stage # "submit"

C14_Witness ==
    /\ last.op = "apply"
    /\ last.code = 200
    /\ Len(last.page.questions) = 2
    /\ last.status = "paused"
    /\ Count(contexts) = 1

(* C15: an ApplyToJob whose question detection returns no question attempts *)
(* the submit control; it persists and returns submitted exactly when a     *)
(* submit candidate was clicked and failed with an error appended           *)
(* otherwise; either way the session is released and is never registered.   *)
C15_NoQuestionsSubmit ==
    /\ (/\ last.op = "apply"
        /\ "detect" \in last.tried
        /\ last.page.questions = <<>>) =>
           /\ "submit" \in last.tried
           /\ sessions[last.sid].ctxDone
           /\ sessions[last.sid].cancelCalls = 1
           /\ \A id \in DOMAIN contexts : contexts[id].sid # last.sid
           /\ last.code = 200 =>
                 /\ last.status = "submitted" <=>
                        (\E c \in Range(last.clicked) : c.stage = "submit")
                 /\ last.status = "submitted" <=> HasControl(submitSelectors, last.page)
                 /\ last.status \in {"submitted", "failed"}
                 /\ last.status = "failed" =>
                        last.errors[Len(last.errors)] = "Could not find Submit button"
                 /\ apps[last.id].status = last.status
                 /\ apps[last.id].error_log = Join(last.errors, "; ")
                 /\ apps[last.id].applied_at = <<now>>
    /\ \A id \in DOMAIN apps : apps[id].paused_at = <<>> => ~Get(contexts, id).exists

C15_Witness ==
    /\ last.op = "apply"
    /\ last.code = 200
    /\ "detect" \in last.tried
    /\ last.page.questions = <<>>
    /\ last.status = "submitted"
    /\ sessions[last.sid].cancelCalls = 1

(* C16: when a resume ends submitted or failed, its session has been        *)
(* released and removed from the registry when it returns, and the          *)
(* returned status is the persisted one.                                    *)
C16_FinalResumeReleases ==
    (Resumed /\ last.status \in {"submitted", "failed"}) =>
        /\ ~Get(contexts, last.id).exists
        /\ \A id \in DOMAIN contexts : contexts[id].sid # last.sid
        /\ sessions[last.sid].ctxDone
        /\ sessions[last.sid].cancelCalls >= 1
        /\ apps[last.id].status = last.status

C16_Witness ==
    /\ Resumed
    /\ last.had
    /\ last.status = "failed"
    /\ "submit" \in last.tried
    /\ Count(contexts) = 0

(* C17: a resume in which an answer fill fails or a required answer is      *)
(* missing returns paused with one error per such question, clicks neither  *)
(* a continue nor a submit control, leaves the persisted status paused and  *)
(* leaves the same session registered for a further resume.                 *)
C17_FillErrorsStayPaused ==
    (Resumed /\ \E q \in Range(last.stored) : MissingRequired(q) \/ FillFailed(q)) =>
        /\ last.status = "paused"
        /\ Len(last.errors) =
              Cardinality({i \in 1..Len(last.stored) :
                              MissingRequired(last.stored[i]) \/ FillFailed(last.stored[i])})
        /\ last.tried \cap {"hasNext", "next", "detect", "submit"} = {}
        /\ \A c \in Range(last.clicked) : c.stage \notin {"next", "submit"}
        /\ apps[last.id].status = "paused"
        /\ Get(contexts, last.id).exists
        /\ Get(contexts, last.id).ctx.sid = last.sid

C17_Witness ==
    /\ Resumed
    /\ \E q \in Range(last.stored) : FillFailed(q)
    /\ \A q \in Range(last.stored) : ~MissingRequired(q)
    /\ last.status = "paused"
    /\ Get(contexts, last.id).exists

(* C18: a resume in which no fill fails and no required answer is missing,  *)
(* on a page with a continue control, clicks it and runs the question       *)
(* detection again; when it stays paused the new list replaces              *)
(* custom_questions and is returned, the session stays registered and no    *)
(* submit is attempted; submit is attempted only when no new question is    *)
(* found.                                                                   *)
C18_MultiPageResume ==
    (/\ Resumed
     /\ \A q \in Range(last.stored) : ~MissingRequired(q) /\ ~FillFailed(q)
     /\ last.page.hasNext) =>
        /\ "next" \in last.tried
        /\ (\E c \in Range(last.clicked) : c.stage = "next") => "detect" \in last.tried
        /\ last.status = "paused" =>
              /\ last.questions # <<>>
              /\ apps[last.id].custom_questions = QuestionToJSON(last.questions)
              /\ apps[last.id].status = "paused"
              /\ Get(contexts, last.id).exists
              /\ "submit" \notin last.tried
        /\ "submit" \in last.tried => last.questions = <<>>

(* C19: every resume that passes the status and session checks persists as  *)
(* user_answers exactly the answer map of that call, entries for unknown    *)
(* question ids included, whether or not a fill fails or a required answer  *)
(* is missing; the map of an earlier resume is replaced, not merged.        *)
C19_RawAnswersSaved ==
    [][(last'.op = "resume" /\ last'.id \in DOMAIN apps) =>
          IF last'.code = 200
          THEN apps'[last'.id].user_answers = <<last'.answers>>
          ELSE apps'[last'.id].user_answers = apps[last'.id].user_answers]_vars

C19_Witness ==
    /\ Resumed
    /\ DOMAIN last.answers = {"stray"}
    /\ \E q \in Range(last.stored) : MissingRequired(q)
    /\ apps[last.id].user_answers = <<last.answers>>

(* C20: no question the detection script returns has a label that matches   *)
(* a standard pattern, whether the label was derived from the page or is a  *)
(* fallback (humanized field name, radio group name, generated default).    *)
C20_NoStandardLabel ==
    last.op = "detect" =>
        \A q \in Range(last.questions) : ~isStandardField(q.Label)

(* C21: a Store under an id the registry already holds replaces the entry:   *)
(* afterwards the id maps to the new session only, the old session has been *)
(* released, the entries of the other ids are unchanged and so is the       *)
(* number of entries.                                                       *)
C21_StoreReplaces ==
    [][(last'.op = "Store" /\ last'.id \in DOMAIN contexts) =>
          LET id == last'.id
              old == contexts[id].sid
          IN  /\ contexts'[id] = BrowserContext(last'.sid, now)
              /\ last'.sid # old
              /\ ~Live(sessions', old)
              /\ sessions'[old].cancelCalls = sessions[old].cancelCalls + 1
              /\ Live(sessions', last'.sid)
              /\ DOMAIN contexts' = DOMAIN contexts
              /\ \A j \in DOMAIN contexts \ {id} : contexts'[j] = contexts[j]
              /\ \A s \in DOMAIN sessions \ {old} : sessions'[s] = sessions[s]
              /\ Count(contexts') = Count(contexts)]_vars

C21_Witness ==
    /\ last.op = "Store"
    /\ last.had
    /\ Count(contexts) = 2
    /\ \E s \in DOMAIN sessions : sessions[s].cancelCalls = 1

(* C22: Shutdown releases every session registered at that moment, whatever *)
(* its age, and leaves the registry empty: Count is 0 and Get finds no id.  *)
C22_ShutdownReleasesAll ==
    [][last'.op = "Shutdown" =>
          /\ \A id \in DOMAIN contexts :
                /\ ~Live(sessions', contexts[id].sid)
                /\ sessions'[contexts[id].sid].cancelCalls =
                       sessions[contexts[id].sid].cancelCalls + 1
          /\ \A s \in DOMAIN sessions' : ~Live(sessions', s)
          /\ Count(contexts') = 0
          /\ \A id \in AppIds : ~Get(contexts', id).exists]_vars

C22_Witness ==
    /\ last.op = "Shutdown"
    /\ last.code = 2
    /\ \E i, j \in DOMAIN last.ages : last.ages[i] = 0 /\ last.ages[j] >= Timeout
    /\ Count(contexts) = 0

(* C23: the persisted custom_questions of an Application is non-empty only  *)
(* while its status is paused; it is discarded when the status becomes      *)
(* submitted, failed, cancelled or timeout.                                 *)
C23_QuestionsOnlyWhilePaused ==
    \A id \in DOMAIN apps :
        apps[id].custom_questions # <<>> => apps[id].status = "paused"

ApplyOutcome(page) ==
    IF page.questions # <<>> THEN "paused"
    ELSE IF HasControl(submitSelectors, page) THEN "submitted" ELSE "failed"

UploadError == "Resume upload failed: file input not found"

(* C24, as claimed: in an ApplyToJob every profile attribute, the resume     *)
(* file included, whose control cannot be located is skipped silently: it   *)
(* is left out of filled_fields and adds nothing to the errors.             *)
C24_AllSkippedSilently ==
    (last.op = "apply" /\ last.code = 200 /\ "fill" \in last.tried) =>
        /\ \A f \in Range(profileFields) :
              ~HasControl(f.selectors, last.page) => f.name \notin Range(last.fieldsFilled)
        /\ ~HasControl(fileSelectors, last.page) => "resume" \notin Range(last.fieldsFilled)
        /\ Range(last.errors) \subseteq {"Could not find Submit button"}

(* C24, amended: a first name, last name, email, phone or city whose        *)
(* control cannot be located is left out of filled_fields and adds no       *)
(* error; a resume file whose control cannot be located is left out of      *)
(* filled_fields and adds the error "Resume upload failed: ..." to the      *)
(* errors and the error_log; in neither case does it change which of        *)
(* paused, submitted or failed the operation ends in.                       *)
C24_MissingControlNotFatal ==
    (last.op = "apply" /\ last.code = 200 /\ "fill" \in last.tried) =>
        /\ \A f \in Range(profileFields) :
              HasControl(f.selectors, last.page) <=> f.name \in Range(last.fieldsFilled)
        /\ HasControl(fileSelectors, last.page) <=> "resume" \in Range(last.fieldsFilled)
        /\ HasControl(fileSelectors, last.page) <=> UploadError \notin Range(last.errors)
        /\ Range(last.errors) \subseteq {UploadError, "Could not find Submit button"}
        /\ "Could not find Submit button" \in Range(last.errors) <=> last.status = "failed"
        /\ last.status = ApplyOutcome(last.page)
        /\ apps[last.id].status = last.status
        /\ apps[last.id].filled_fields.fields = last.fieldsFilled
        /\ apps[last.id].error_log = Join(last.errors, "; ")

C24_Witness ==
    /\ last.op = "apply"
    /\ last.code = 200
    /\ "fill" \in last.tried
    /\ ~HasControl(fileSelectors, last.page)
    /\ \E f \in Range(profileFields) : ~HasControl(f.selectors, last.page)
    /\ last.fieldsFilled # <<>>
    /\ last.status = "submitted"

(* C25: the Application record an ApplyToJob creates is first persisted     *)
(* with status in_progress; paused, submitted and failed are reached by a   *)
(* later write to the same record.                                          *)
C25_FirstStatusInProgress ==
    [][\A id \in DOMAIN apps' \ DOMAIN apps : apps'[id].status = "in_progress"]_vars

IsFirstVisible(sel, selectors, page) ==
    \E i \in 1..Len(selectors) :
        /\ selectors[i] = sel
        /\ sel \in page.visible
        /\ \A j \in 1..(i - 1) : selectors[j] \notin page.visible

ActsOn(stage, selectors) ==
    {i \in 1..Len(last.clicked) :
        last.clicked[i].stage = stage /\ last.clicked[i].selector \in Range(selectors)}

FirstOrNone(stage, selectors) ==
    IF HasControl(selectors, last.page)
    THEN \E i \in ActsOn(stage, selectors) :
            /\ ActsOn(stage, selectors) = {i}
            /\ IsFirstVisible(last.clicked[i].selector, selectors, last.page)
    ELSE ActsOn(stage, selectors) = {}

Times(e, seq) == Cardinality({i \in 1..Len(seq) : seq[i] = e})

(* C26: in an ApplyToJob each pass over an ordered candidate list (the      *)
(* apply click, every profile fill, the upload, the submit click) succeeds  *)
(* iff some candidate resolves to a visible element; it then acts on the    *)
(* first such candidate in list order and on no other, and when none        *)
(* resolves it acts on nothing and reports one not-found failure.           *)
C26_FirstCandidateOnly ==
    (last.op = "apply" /\ last.code = 200 /\ "apply" \in last.tried) =>
        /\ FirstOrNone("apply", applySelectors)
        /\ ~HasControl(applySelectors, last.page) =>
              /\ last.clicked = <<>>
              /\ Times("Could not find Apply button", last.errors) = 1
        /\ "fill" \in last.tried =>
              \A f \in Range(profileFields) : FirstOrNone("fill", f.selectors)
        /\ "upload" \in last.tried =>
              /\ FirstOrNone("upload", fileSelectors)
              /\ Times(UploadError, last.errors) =
                    IF HasControl(fileSelectors, last.page) THEN 0 ELSE 1
        /\ "submit" \in last.tried =>
              /\ FirstOrNone("submit", submitSelectors)
              /\ Times("Could not find Submit button", last.errors) =
                    IF HasControl(submitSelectors, last.page) THEN 0 ELSE 1
              /\ last.status = IF HasControl(submitSelectors, last.page)
                               THEN "submitted" ELSE "failed"

C26_Witness ==
    /\ last.op = "apply"
    /\ last.code = 200
    /\ {"input[type=\"submit\"]", "button[id*=\"submit\"]"} \subseteq last.page.visible
    /\ \E i \in 1..Len(last.clicked) :
          last.clicked[i] = [stage |-> "submit", selector |-> "input[type=\"submit\"]"]
    /\ \A i \in 1..Len(last.clicked) : last.clicked[i].selector # "button[id*=\"submit\"]"

RequestsIn(ip, a, b) ==
    {i \in 1..Len(history) :
        /\ history[i].op = "request"
        /\ history[i].ip = ip
        /\ a <= history[i].at
        /\ history[i].at <= b}

AdmittedIn(ip, a, b) == {i \in RequestsIn(ip, a, b) : history[i].admitted}

C28_CompliantNeverRejected ==
    \A ip \in Ips :
        (\A a \in 0..now : Cardinality(RequestsIn(ip, a, a + Window)) <= Rate) =>
            \A i \in RequestsIn(ip, 0, now) : history[i].admitted

(* C29: once a ScrapeJobs call for (keywords, location) has stored a job,   *)
(* every ScrapeJobs call for the same keywords and location less than the   *)
(* cache lifetime later, with the database answering, is served from the    *)
(* cache, whatever other searches ran in between.                           *)
C29_CachedWithinTTL ==
    \A i, j \in 1..Len(history) :
        (/\ i < j
         /\ history[i].op = "scrape"
         /\ history[j].op = "scrape"
         /\ history[j].keywords = history[i].keywords
         /\ history[j].location = history[i].location
         /\ ~history[i].from_cache
         /\ history[i].jobs_scraped > 0
         /\ history[j].db
         /\ history[j].at - history[i].at < CacheTTL)
        => history[j].from_cache

(* C30: whenever an ApplyToJob or a ResumeApplication answers with a        *)
(* non-empty errors list, the error_log of that Application holds exactly   *)
(* those error strings, on every exit, the resume exits that leave the      *)
(* Application paused included.                                             *)
C30_ErrorsLogged ==
    (last.op \in {"apply", "resume"} /\ last.code = 200 /\ last.errors # <<>>) =>
        /\ last.id \in DOMAIN apps
        /\ apps[last.id].error_log \in {Join(last.errors, "; "), SprintfV(last.errors)}

FillErrorTexts ==
    {"context deadline exceeded", "context canceled", "failed to set select value",
     "failed to select radio option"}

FillErrorsOf(q) ==
    {i \in 1..Len(last.errors) :
        \E e \in FillErrorTexts : last.errors[i] = "Failed to fill '" \o q.Label \o "': " \o e}

FillAttempts(q) == Times(q.Label, last.fieldsFilled) + Cardinality(FillErrorsOf(q))

(* C31: in a ResumeApplication that reaches the fill loop, one fill is      *)
(* attempted for a stored question when the answer map holds its id and     *)
(* none otherwise; a stored optional question without an answer adds no     *)
(* error, and an answer whose id is no stored question's causes no fill and *)
(* no error.                                                                *)
C31_OneFillPerAnswer ==
    Resumed =>
        /\ \A q \in Range(last.stored) :
              /\ FillAttempts(q) = IF q.ID \in DOMAIN last.answers THEN 1 ELSE 0
              /\ q.ID \in last.tried <=> q.ID \in DOMAIN last.answers
              /\ Times("Missing required answer for: " \o q.Label, last.errors) =
                    IF MissingRequired(q) THEN 1 ELSE 0
        /\ \A a \in DOMAIN last.answers :
              (\A q \in Range(last.stored) : q.ID # a) => a \notin last.tried
        /\ \A i \in 1..Len(last.errors) :
              \/ \E q \in Range(last.stored) :
                    \/ i \in FillErrorsOf(q)
                    \/ MissingRequired(q) /\
                          last.errors[i] = "Missing required answer for: " \o q.Label
              \/ last.errors[i] \in {"Failed to click next button",
                                     "Could not find submit button"}

C31_Witness ==
    /\ Resumed
    /\ Len(last.stored) = 2
    /\ DOMAIN last.answers = {"textarea_0", "stray"}
    /\ \E q \in Range(last.stored) : ~q.Required /\ q.ID \notin DOMAIN last.answers
    /\ Len(last.errors) = 1

(* C32: GetApplicationStatus writes nothing: the applications table, the    *)
(* registry (the CreatedAt of its entries included) and the sessions are    *)
(* as before; it reports a session exactly when the registry holds an entry *)
(* for the id, and a question list only for a paused Application.           *)
C32_StatusReadOnly ==
    [][last'.op = "status" =>
          /\ apps' = apps
          /\ contexts' = contexts
          /\ sessions' = sessions
          /\ last'.code = 200 <=> last'.id \in DOMAIN apps
          /\ last'.code = 200 =>
                /\ last'.status = apps[last'.id].status
                /\ last'.exists <=> last'.id \in DOMAIN contexts
                /\ last'.questions # <<>> => apps[last'.id].status = "paused"
                /\ apps[last'.id].status = "paused" =>
                      last'.questions = JSONToQuestions(apps[last'.id].custom_questions)]_vars

C32_Witness ==
    /\ last.op = "status"
    /\ last.code = 200
    /\ last.exists
    /\ last.questions # <<>>
    /\ now - contexts[last.id].CreatedAt >= 1

Registered(sid) == \E id \in DOMAIN contexts : contexts[id].sid = sid

(* C33: when an ApplyToJob returns, the session it opened has one owner: it *)
(* is in the registry exactly when the answer is a paused result, a         *)
(* registered session has been neither cancelled nor released by the        *)
(* handler, and a session that is not registered has been released once.    *)
C33_OneOwnerOnReturn ==
    last.op = "apply" =>
        /\ Registered(last.sid) <=> (last.code = 200 /\ last.status = "paused")
        /\ Registered(last.sid) => Live(sessions, last.sid)
        /\ ~Registered(last.sid) => sessions[last.sid].cancelCalls = 1

Quiescent ==
    /\ \A s \in 1..MaxFlights : flights[s].pc \in {"idle", "done"}
    /\ \A sid \in DOMAIN sessions : sessions[sid].returned

(* C34: whenever no apply, resume or cancel request is in flight, every id  *)
(* the registry holds an entry for is an Application whose persisted status *)
(* is paused; a submitted, failed, cancelled or timeout Application keeps   *)
(* no registered session.                                                   *)
C34_RegisteredOnlyWhilePaused ==
    Quiescent =>
        \A id \in DOMAIN contexts : id \in DOMAIN apps /\ apps[id].status = "paused"

C34_Witness ==
    /\ \A s \in 1..MaxFlights : flights[s].pc = "done"
    /\ \E id \in DOMAIN apps :
          /\ apps[id].status \in {"submitted", "failed"}
          /\ apps[id].paused_at # <<>>
          /\ id \notin DOMAIN contexts
    /\ \E s \in DOMAIN sessions : sessions[s].cancelCalls = 1

(* C35: a pass of the reaper does not release a session that a resume       *)
(* request obtained with Get and is still running its fill, click and       *)
(* detect steps on.                                                         *)
C35_ReaperSparesSessionInUse ==
    [][last'.op = "CleanupExpired" =>
          \A s \in 1..MaxFlights :
              flights[s].pc = "run" =>
                  sessions'[flights[s].sid].cancelCalls =
                      sessions[flights[s].sid].cancelCalls]_vars

C37_ReleasedAtMostOnce ==
    [][/\ \A s \in DOMAIN sessions' : sessions'[s].cancelCalls <= 1
       /\ \A id \in DOMAIN contexts' : sessions'[contexts'[id].sid].cancelCalls = 0
       /\ (last'.op = "Remove" /\ last'.id \notin DOMAIN contexts) =>
             /\ contexts' = contexts
             /\ sessions' = sessions]_vars

C37_Witness ==
    /\ last.op = "Remove"
    /\ ~last.had
    /\ Count(contexts) >= 1
    /\ \E s \in DOMAIN sessions : sessions[s].cancelCalls = 1
    /\ \A id \in DOMAIN contexts : now - contexts[id].CreatedAt > Timeout

(* C38: with requests of one IP inside the limiter at the same time, the    *)
(* token count of a visitor is never negative and no more than Rate of its  *)
(* requests are admitted within a window, as if the check of the tokens     *)
(* and the decrement were one step.                                         *)
C38_CheckAndTakeAtomic ==
    \A ip \in DOMAIN visitors :
        /\ visitors[ip].tokens >= 0
        /\ \A a \in 0..now : Cardinality(AdmittedIn(ip, a, a + Window)) <= Rate

====
